---- MODULE Spec2Model ----
(***************************************************************************)
(* Thyracont Smartline V1 driver (pymeasure/instruments/thyracont/         *)
(* smartline_v1.py): the frame codec (write, read, _checksum), the         *)
(* acknowledgement check (check_errors) and the four attributes (type,     *)
(* pressure, unit, cathode_enabled) on top of a line transport.            *)
(*                                                                         *)
(* A Python string is a sequence of character codes (ord values).  A       *)
(* Python value handed to an attribute setter is a record                  *)
(* [type, repr] of its Python type name and its repr.                      *)
(***************************************************************************)
EXTENDS Integers, Sequences, FiniteSets, TLC

VARIABLES
    address,    \* self.address, set by __init__
    wire,       \* frames handed to the transport, not yet taken by the device
    inbuf,      \* lines the transport holds for read(), oldest first
    nsent,      \* number of frames handed to the transport so far
    pc,         \* "idle", or where the attribute operation in progress blocks
    cur,        \* the attribute operation in progress
    wrote,      \* what the last (or current) call handed to the transport
    consumed,   \* the lines the last (or current) call took from the transport
    last        \* the outcome of the last call

vars == <<address, wire, inbuf, nsent, pc, cur, wrote, consumed, last>>

----------------------------------------------------------------------------
(* Bounds of the model *)

MaxCmdLen == 2      \* longest command string given to write()
MaxLineLen == 2     \* longest arbitrary line delivered to read()
MaxFrames == 2      \* frames sent in one behaviour of the attribute mapper

(* Character codes the source names *)

ord_0 == 48
ord_T == 84
ord_M == 77
ord_U == 85
ord_I == 73
ord_u == 117
ord_i == 105
ord_N == 78
ord_X == 88
CR == 13

----------------------------------------------------------------------------
(* Python string helpers *)

\* s[:-1]
ButLast(s) == IF Len(s) = 0 THEN <<>> ELSE SubSeq(s, 1, Len(s) - 1)

\* s[4:]
From4(s) == IF Len(s) <= 4 THEN <<>> ELSE SubSeq(s, 5, Len(s))

\* s[:4]
To4(s) == IF Len(s) <= 4 THEN s ELSE SubSeq(s, 1, 4)

RECURSIVE SumOrd(_)
\* sum(map(ord, msg))
SumOrd(msg) == IF msg = <<>> THEN 0 ELSE Head(msg) + SumOrd(Tail(msg))

RECURSIVE DecStr(_)
\* "%d" % n for n >= 0
DecStr(n) == IF n < 10 THEN <<ord_0 + n>>
             ELSE DecStr(n \div 10) \o <<ord_0 + (n % 10)>>

RECURSIVE ZeroPad(_, _)
\* left padding with "0" up to width w, as the 0 flag of a format does
ZeroPad(s, w) == IF Len(s) >= w THEN s ELSE ZeroPad(<<ord_0>> \o s, w)

IsDigits(s) == s # <<>> /\ \A i \in 1..Len(s) : s[i] \in ord_0..(ord_0 + 9)

RECURSIVE IntOf(_)
\* int(s) for a string of decimal digits
IntOf(s) == IF s = <<>> THEN 0
            ELSE 10 * IntOf(ButLast(s)) + (s[Len(s)] - ord_0)

----------------------------------------------------------------------------
(* Frame codec *)

ChecksumNoOffset(msg) == <<SumOrd(msg) % 64>>
ChecksumMod128(msg) == <<(SumOrd(msg) % 128) + 64>>

\* _checksum: chr(sum(map(ord, msg)) % 64 + 64)
Checksum(msg) == <<(SumOrd(msg) % 64) + 64>>

\* write_termination="\r": the adapter appends it to what write() hands over
AdapterWrite(s) == s \o <<CR>>

\* read_termination="\r": the adapter strips it from the line it returns
AdapterRead(bytes) ==
    IF Len(bytes) > 0 /\ bytes[Len(bytes)] = CR THEN ButLast(bytes) ELSE bytes

WriteChecksumOfCommand(addr, command) ==
    ZeroPad(DecStr(addr), 3) \o command \o Checksum(command)

\* write: what it hands to super().write
Write(addr, command) ==
    LET fullcmd == ZeroPad(DecStr(addr), 3) \o command
    IN  fullcmd \o Checksum(fullcmd)

ReadNoCheck(msg) ==
    IF msg = <<>>
    THEN [status |-> "IndexError", value |-> <<>>, chksum |-> Checksum(<<>>)]
    ELSE [status |-> "ok", value |-> ButLast(msg), chksum |-> Checksum(ButLast(msg))]

ReadKeepsChecksum(msg) ==
    LET chksum == Checksum(ButLast(msg))
    IN  IF msg = <<>>
        THEN [status |-> "IndexError", value |-> <<>>, chksum |-> chksum]
        ELSE IF <<msg[Len(msg)]>> = chksum
        THEN [status |-> "ok", value |-> msg, chksum |-> chksum]
        ELSE [status |-> "ChecksumError", value |-> <<>>, chksum |-> chksum]

\* read, on the line msg that super().read() returned: msg[-1] of an empty
\* string raises IndexError after the checksum of msg[:-1] has been computed
Read(msg) ==
    LET chksum == Checksum(ButLast(msg))
    IN  IF msg = <<>>
        THEN [status |-> "IndexError", value |-> <<>>, chksum |-> chksum]
        ELSE IF <<msg[Len(msg)]>> = chksum
        THEN [status |-> "ok", value |-> ButLast(msg), chksum |-> chksum]
        ELSE [status |-> "ChecksumError", value |-> <<>>, chksum |-> chksum]

----------------------------------------------------------------------------
(* Python values given to, and returned by, the attributes *)

PyStr(s) == [type |-> "str", repr |-> s]
PyBool(b) == [type |-> "bool", repr |-> IF b THEN "True" ELSE "False"]
PyInt(r) == [type |-> "int", repr |-> r]
PyNone == [type |-> "NoneType", repr |-> "None"]

NoValues == [k \in {} |-> 0]

UnitValuesWithPa ==
    (PyStr("mbar") :> 0) @@ (PyStr("Torr") :> 1) @@ (PyStr("hPa") :> 2)
        @@ (PyStr("Pa") :> 3)

\* unit: values={"mbar": 0, "Torr": 1, "hPa": 2}
UnitValues ==
    (PyStr("mbar") :> 0) @@ (PyStr("Torr") :> 1) @@ (PyStr("hPa") :> 2)

\* cathode_enabled: values={True: 1, False: 0}
CathodeValues == (PyBool(TRUE) :> 1) @@ (PyBool(FALSE) :> 0)

----------------------------------------------------------------------------
(* The attributes: the arguments of Instrument.measurement / .control *)

type ==
    [name |-> "type", get_command |-> <<ord_T>>, settable |-> FALSE,
     set_prefix |-> <<>>, set_width |-> 0, values |-> NoValues,
     check_set_errors |-> FALSE]

pressure ==
    [name |-> "pressure", get_command |-> <<ord_M>>, settable |-> FALSE,
     set_prefix |-> <<>>, set_width |-> 0, values |-> NoValues,
     check_set_errors |-> FALSE]

unit_checked ==
    [name |-> "unit", get_command |-> <<ord_U>>, settable |-> TRUE,
     set_prefix |-> <<ord_u>>, set_width |-> 6, values |-> UnitValues,
     check_set_errors |-> TRUE]

\* "U", "u%06d", no check_set_errors
unit ==
    [name |-> "unit", get_command |-> <<ord_U>>, settable |-> TRUE,
     set_prefix |-> <<ord_u>>, set_width |-> 6, values |-> UnitValues,
     check_set_errors |-> FALSE]

\* "I", "i%d", check_set_errors=True
cathode_enabled ==
    [name |-> "cathode_enabled", get_command |-> <<ord_I>>, settable |-> TRUE,
     set_prefix |-> <<ord_i>>, set_width |-> 0, values |-> CathodeValues,
     check_set_errors |-> TRUE]

Attributes == {type, pressure, unit, cathode_enabled}

\* preprocess_reply=lambda s: s[4:]
PreprocessReply(s) == From4(s)

\* pressure's get_process, float(s[:4])/1000*10**(int(s[4:])-20), as the
\* pair <<mantissa in thousandths, power of ten>>; only strings of decimal
\* digits are parsed, anything else is a failed conversion
PressureProcess(s) ==
    IF IsDigits(To4(s)) /\ IsDigits(From4(s))
    THEN [status |-> "ok", value |-> <<IntOf(To4(s)), IntOf(From4(s)) - 20>>]
    ELSE [status |-> "DecodeError", value |-> <<>>]

\* cast=int and the reverse lookup in values (map_values=True)
MappedRead(values, s) ==
    IF IsDigits(s) /\ \E k \in DOMAIN values : values[k] = IntOf(s)
    THEN [status |-> "ok",
          pyval |-> CHOOSE k \in DOMAIN values : values[k] = IntOf(s)]
    ELSE [status |-> "DecodeError", pyval |-> PyNone]

\* the typed value of a reply message, by attribute
Decode(attr, message) ==
    LET s == PreprocessReply(message)
    IN  CASE attr.name = "type" ->
               [status |-> "ok", value |-> s, pyval |-> PyNone]
          [] attr.name = "pressure" ->
               [status |-> PressureProcess(s).status,
                value |-> PressureProcess(s).value, pyval |-> PyNone]
          [] OTHER ->
               [status |-> MappedRead(attr.values, s).status, value |-> <<>>,
                pyval |-> MappedRead(attr.values, s).pyval]

\* validator=strict_discrete_set: the value must be one of values
Valid(attr, v) == v \in DOMAIN attr.values

\* the set command, "u%06d" or "i%d", of the mapped value
SetCommand(attr, v) ==
    attr.set_prefix \o ZeroPad(DecStr(attr.values[v]), attr.set_width)

ErrorMarkersOnlyN == {ord_N}

\* check_errors: reply[3] in ["N", "X"]
ErrorMarkers == {ord_N, ord_X}

\* check_errors, on the line msg that the transport returned
CheckErrors(msg) ==
    LET reply == Read(msg)
    IN  IF reply.status # "ok" THEN reply.status
        ELSE IF Len(reply.value) < 4 THEN "FrameTooShort"
        ELSE IF reply.value[4] \in ErrorMarkers THEN "DeviceError"
        ELSE "ok"

----------------------------------------------------------------------------
(* Inputs *)

Addresses == {0, 1, 15, 105}

RECURSIVE SeqsUpTo(_, _)
SeqsUpTo(S, n) ==
    IF n = 0 THEN {<<>>}
    ELSE LET shorter == SeqsUpTo(S, n - 1)
         IN  shorter \cup {Append(s, c) : s \in shorter, c \in S}

\* "T", "u", "0"
CmdChars == {ord_T, ord_u, ord_0}
Commands == SeqsUpTo(CmdChars, MaxCmdLen)

\* characters of arbitrary lines: NUL, "@", "A", a code above one byte
LineChars == {0, 64, 65, 8364}
Lines == SeqsUpTo(LineChars, MaxLineLen)

\* replacement characters of a corrupted frame
CorruptChars == {20, ord_0, ord_0 + 1, ord_T, ord_0 + 64, ord_0 + 65,
                 ord_T + 128}

\* values given to the setters: the members of both domains, and values
\* of neither
SetInputs ==
    {PyStr("mbar"), PyStr("Torr"), PyStr("hPa"), PyStr("Pa"), PyStr("yes"),
     PyBool(TRUE), PyBool(FALSE), PyInt("2"), PyNone}

----------------------------------------------------------------------------
(* State *)

NoCall ==
    [op |-> "none", attr |-> "", arg |-> <<>>, pyarg |-> PyNone,
     status |-> "none", value |-> <<>>, pyval |-> PyNone, chksum |-> <<>>,
     origin |-> <<>>, pos |-> 0, command |-> <<>>, req |-> 0]

NoOp == [attr |-> type, req |-> 0, pyarg |-> PyNone]

Init ==
    /\ address \in Addresses
    /\ wire = <<>>
    /\ inbuf = <<>>
    /\ nsent = 0
    /\ pc = "idle"
    /\ cur = NoOp
    /\ wrote = <<>>
    /\ consumed = <<>>
    /\ last = NoCall

\* what write(command) puts on the line: the frame, terminated by the
\* adapter, numbered in the order of sending
Sent(command) ==
    [bytes |-> AdapterWrite(Write(address, command)), command |-> command,
     id |-> nsent + 1]

----------------------------------------------------------------------------
(* The codec alone: write(command) and read() called directly *)

\* instrument.write(command)
CodecWrite(command) ==
    /\ wire = <<>>
    /\ wire' = <<[bytes |-> AdapterWrite(Write(address, command)),
                  command |-> command, id |-> 0]>>
    /\ wrote' = <<AdapterWrite(Write(address, command))>>
    /\ consumed' = <<>>
    /\ last' = [NoCall EXCEPT !.op = "write", !.arg = command, !.status = "ok"]
    /\ UNCHANGED <<address, inbuf, nsent, pc, cur>>

\* the outcome of read() on a line
ReadOutcome(line, origin, pos, command) ==
    [NoCall EXCEPT !.op = "read", !.arg = line,
                   !.status = Read(line).status, !.value = Read(line).value,
                   !.chksum = Read(line).chksum,
                   !.origin = origin, !.pos = pos, !.command = command]

\* instrument.read() of the frame just written, looped back
CodecReadLoopback ==
    /\ wire # <<>>
    /\ LET line == AdapterRead(Head(wire).bytes)
       IN  /\ last' = ReadOutcome(line, line, 0, Head(wire).command)
           /\ consumed' = <<line>>
    /\ wire' = Tail(wire)
    /\ wrote' = <<>>
    /\ UNCHANGED <<address, inbuf, nsent, pc, cur>>

\* instrument.read() of the frame just written, one body character changed
\* on the way
CodecReadCorrupted ==
    /\ wire # <<>>
    /\ LET line == AdapterRead(Head(wire).bytes)
       IN  \E pos \in 1..(Len(line) - 1) : \E c \in CorruptChars \ {line[pos]} :
              /\ last' = ReadOutcome([line EXCEPT ![pos] = c], line, pos,
                                     Head(wire).command)
              /\ consumed' = <<[line EXCEPT ![pos] = c]>>
    /\ wire' = Tail(wire)
    /\ wrote' = <<>>
    /\ UNCHANGED <<address, inbuf, nsent, pc, cur>>

\* instrument.read() of an arbitrary line
CodecReadLine(line) ==
    /\ last' = ReadOutcome(line, <<>>, 0, <<>>)
    /\ consumed' = <<line>>
    /\ wrote' = <<>>
    /\ UNCHANGED <<address, wire, inbuf, nsent, pc, cur>>

NextCodec ==
    \/ \E command \in Commands : CodecWrite(command)
    \/ CodecReadLoopback
    \/ CodecReadCorrupted
    \/ \E line \in Lines : CodecReadLine(line)

SpecCodec == Init /\ [][NextCodec]_vars

----------------------------------------------------------------------------
(* The device at the other end of the line: it answers each frame it       *)
(* receives with one line.                                                 *)

\* a well-formed line of the protocol
Framed(body) == body \o Checksum(body)

\* data fields of replies: "000001", "000007", "VSH"
DeviceData ==
    {<<ord_0, ord_0, ord_0, ord_0, ord_0, ord_0 + 1>>,
     <<ord_0, ord_0, ord_0, ord_0, ord_0, ord_0 + 7>>,
     <<86, 83, 72>>}

\* the lines the device may answer a received frame with: the echo of
\* address and command letter with a data field, an error marker in the
\* letter's place, and damaged lines (no data and too short, a wrong
\* checksum, a lone "@", nothing at all)
DeviceReplies(bytes) ==
    LET body == ButLast(AdapterRead(bytes))
        echo == To4(body)
        addr == ButLast(echo)
    IN  {Framed(echo \o d) : d \in DeviceData}
          \cup {Framed(addr \o <<m>>) : m \in {ord_N, ord_X}}
          \cup {Framed(addr), echo \o <<ord_0>>, <<64>>, <<>>}

\* the device takes the oldest frame and answers it
DeviceReply ==
    /\ wire # <<>>
    /\ \E line \in DeviceReplies(Head(wire).bytes) :
          inbuf' = Append(inbuf, [line |-> line, req |-> Head(wire).id])
    /\ wire' = Tail(wire)
    /\ UNCHANGED <<address, nsent, pc, cur, wrote, consumed, last>>

----------------------------------------------------------------------------
(* The attributes *)

\* the getter of a measurement or control, up to its blocking read:
\* write(get_command)
Get(attr) ==
    /\ pc = "idle"
    /\ nsent < MaxFrames
    /\ wire' = Append(wire, Sent(attr.get_command))
    /\ nsent' = nsent + 1
    /\ wrote' = <<AdapterWrite(Write(address, attr.get_command))>>
    /\ consumed' = <<>>
    /\ pc' = "get"
    /\ cur' = [attr |-> attr, req |-> nsent + 1, pyarg |-> PyNone]
    /\ last' = NoCall
    /\ UNCHANGED <<address, inbuf>>

\* the rest of the getter: read(), then the reply's data field is decoded
GetReply ==
    /\ pc = "get"
    /\ inbuf # <<>>
    /\ LET reply == Read(Head(inbuf).line)
           typed == Decode(cur.attr, reply.value)
       IN  last' = [NoCall EXCEPT
                      !.op = "get", !.attr = cur.attr.name,
                      !.arg = Head(inbuf).line, !.req = cur.req,
                      !.command = cur.attr.get_command,
                      !.chksum = reply.chksum,
                      !.status = IF reply.status = "ok" THEN typed.status
                                 ELSE reply.status,
                      !.value = IF reply.status = "ok" THEN typed.value
                                ELSE <<>>,
                      !.pyval = IF reply.status = "ok" THEN typed.pyval
                                ELSE PyNone]
    /\ consumed' = Append(consumed, Head(inbuf))
    /\ inbuf' = Tail(inbuf)
    /\ pc' = "idle"
    /\ UNCHANGED <<address, wire, nsent, cur, wrote>>

\* the setter of a control given a value outside values: the validator raises
SetInvalid(attr, v) ==
    /\ pc = "idle"
    /\ ~Valid(attr, v)
    /\ last' = [NoCall EXCEPT !.op = "set", !.attr = attr.name, !.pyarg = v,
                              !.status = "ValidationError"]
    /\ wrote' = <<>>
    /\ consumed' = <<>>
    /\ UNCHANGED <<address, wire, inbuf, nsent, pc, cur>>

\* the setter of a control given one of values: write(set_command % mapped),
\* then check_errors() if check_set_errors
Set(attr, v) ==
    /\ pc = "idle"
    /\ Valid(attr, v)
    /\ nsent < MaxFrames
    /\ wire' = Append(wire, Sent(SetCommand(attr, v)))
    /\ nsent' = nsent + 1
    /\ wrote' = <<AdapterWrite(Write(address, SetCommand(attr, v)))>>
    /\ consumed' = <<>>
    /\ cur' = [attr |-> attr, req |-> nsent + 1, pyarg |-> v]
    /\ IF attr.check_set_errors
       THEN /\ pc' = "ack"
            /\ last' = NoCall
       ELSE /\ pc' = "idle"
            /\ last' = [NoCall EXCEPT !.op = "set", !.attr = attr.name,
                                      !.pyarg = v, !.req = nsent + 1,
                                      !.status = "ok"]
    /\ UNCHANGED <<address, inbuf>>

\* the rest of a checked setter: check_errors() reads the acknowledgement
AckReply ==
    /\ pc = "ack"
    /\ inbuf # <<>>
    /\ last' = [NoCall EXCEPT !.op = "set", !.attr = cur.attr.name,
                              !.pyarg = cur.pyarg, !.req = cur.req,
                              !.arg = Head(inbuf).line,
                              !.status = CheckErrors(Head(inbuf).line)]
    /\ consumed' = Append(consumed, Head(inbuf))
    /\ inbuf' = Tail(inbuf)
    /\ pc' = "idle"
    /\ UNCHANGED <<address, wire, nsent, cur, wrote>>

Next ==
    \/ \E attr \in Attributes : Get(attr)
    \/ GetReply
    \/ \E attr \in {a \in Attributes : a.settable} : \E v \in SetInputs :
          SetInvalid(attr, v)
    \/ \E attr \in {a \in Attributes : a.settable} : \E v \in SetInputs :
          Set(attr, v)
    \/ AckReply
    \/ DeviceReply

Spec == Init /\ [][Next]_vars

----------------------------------------------------------------------------
(* Properties *)

\* an address below 1000 as three decimal digits
ThreeDigits(n) ==
    <<ord_0 + (n \div 100), ord_0 + ((n \div 10) % 10), ord_0 + (n % 10)>>

\* the checksum character the protocol asks for
ProtocolChecksum(body) == (SumOrd(body) % 64) + 64

\* C1: write(command) hands the transport exactly one frame: the address
\* as three zero-padded decimal digits, the command, and the checksum
\* character of those two; the terminator that follows is not summed.
C1_WriteFrame ==
    last.op = "write" =>
        /\ Len(wrote) = 1
        /\ LET body == ThreeDigits(address) \o last.arg
           IN  wrote[1] = body \o <<ProtocolChecksum(body)>> \o <<CR>>

\* address 15, command "u0": the frame is "015u0{"
C1_Witness ==
    /\ last.op = "write"
    /\ address = 15
    /\ last.arg = <<ord_u, ord_0>>
    /\ wrote = <<(<<48, 49, 53, 117, 48, 123, 13>>)>>

\* C2: read() of a line of at least 2 characters fails with a checksum
\* error and returns nothing when the checksum of the line without its last
\* character differs from that last character, and returns exactly the line
\* without its last character when they are equal.
C2_ReadChecks ==
    (last.op = "read" /\ Len(last.arg) >= 2) =>
        LET message == SubSeq(last.arg, 1, Len(last.arg) - 1)
            received == last.arg[Len(last.arg)]
        IN  IF ProtocolChecksum(message) # received
            THEN last.status = "ChecksumError" /\ last.value = <<>>
            ELSE last.status = "ok" /\ last.value = message

\* a frame with one character changed is refused
C2_Witness ==
    /\ last.op = "read"
    /\ Len(last.arg) >= 2
    /\ last.pos > 0
    /\ last.status = "ChecksumError"

\* C3: for an address in 1..15 and a command of a letter and data, read()
\* of the frame that write() produced succeeds and returns address, letter
\* and data.
C3_RoundTrip ==
    (/\ last.op = "read"
     /\ last.origin # <<>>
     /\ last.pos = 0
     /\ address \in 1..15
     /\ Len(last.command) >= 1) =>
        /\ last.status = "ok"
        /\ last.value = ThreeDigits(address) \o last.command

\* address 15, command "u0" comes back as "015u0"
C3_Witness ==
    /\ last.op = "read"
    /\ last.origin # <<>>
    /\ last.pos = 0
    /\ address = 15
    /\ last.command = <<ord_u, ord_0>>
    /\ last.value = <<48, 49, 53, 117, 48>>

\* C4: read() of an empty line or of a line of one character fails with a
\* frame-too-short error.
C4_ShortLineIsFrameTooShort ==
    (last.op = "read" /\ Len(last.arg) < 2) => last.status = "FrameTooShort"

\* what the attributes declare as the values one may set
InDeclaredDomain(name, v) ==
    IF name = "unit" THEN v \in {PyStr("mbar"), PyStr("Torr"), PyStr("hPa")}
    ELSE v.type = "bool"

C6_AckChecked ==
    (/\ last.op = "set"
     /\ last.attr = "cathode_enabled"
     /\ last.status # "ValidationError") =>
        /\ Len(consumed) = 1
        /\ last.arg = consumed[1].line
        /\ LET line == last.arg
               message == SubSeq(line, 1, Len(line) - 1)
           IN  IF Len(line) = 0 \/ ProtocolChecksum(message) # line[Len(line)]
               THEN last.status \in {"ChecksumError", "IndexError"}
               ELSE IF Len(message) < 4 THEN last.status = "FrameTooShort"
               ELSE IF message[4] \in {78, 88} THEN last.status = "DeviceError"
               ELSE last.status = "ok"

\* the acknowledgement "015X" of cathode_enabled = True is a device error
C6_Witness ==
    /\ last.op = "set"
    /\ last.attr = "cathode_enabled"
    /\ last.pyarg = PyBool(TRUE)
    /\ Len(last.arg) = 5
    /\ last.arg[4] = 88
    /\ last.status = "DeviceError"

\* C7: an attribute read and a validated attribute write send exactly one
\* frame; a read and a cathode_enabled write then consume exactly one reply,
\* a unit write none; whatever the outcome, no second frame is sent and no
\* second reply is read.
C7_OneFrameOneReply ==
    /\ pc \in {"get", "ack"} => (Len(wrote) = 1 /\ consumed = <<>>)
    /\ (pc = "idle" /\ last.op = "get") =>
          (Len(wrote) = 1 /\ Len(consumed) = 1)
    /\ (pc = "idle" /\ last.op = "set" /\ last.status # "ValidationError") =>
          /\ Len(wrote) = 1
          /\ Len(consumed) = (IF last.attr = "cathode_enabled" THEN 1 ELSE 0)
    /\ last.op \in {"get", "set"} => pc = "idle"

\* a read whose reply has a wrong checksum: one frame, one reply, an error
C7_Witness ==
    /\ pc = "idle"
    /\ last.op = "get"
    /\ last.status = "ChecksumError"
    /\ Len(wrote) = 1
    /\ Len(consumed) = 1
    /\ nsent = 1

\* C8: a checksum is one character with a code in 64..127, whatever the
\* summed characters are, and so never the terminator.
C8_ChecksumRange ==
    /\ last.op = "read" =>
          /\ Len(last.chksum) = 1
          /\ last.chksum[1] \in 64..127
          /\ last.chksum[1] # CR
    /\ last.op = "write" =>
          /\ wrote[1][Len(wrote[1]) - 1] \in 64..127
          /\ wrote[1][Len(wrote[1]) - 1] # CR

\* the checksum of a character above one byte
C8_Witness ==
    /\ last.op = "read"
    /\ last.arg = <<8364, 0>>
    /\ last.chksum = <<108>>

\* C9: read() of a valid frame with one body character changed fails with a
\* checksum error, unless the new and the old character codes differ by a
\* multiple of 64: then the frame is accepted.
C9_SingleCorruption ==
    (last.op = "read" /\ last.pos > 0) =>
        IF last.arg[last.pos] % 64 = last.origin[last.pos] % 64
        THEN last.status = "ok" /\ last.value = ButLast(last.arg)
        ELSE last.status = "ChecksumError"

\* "0" changed into "p" (48 + 64) passes
C9_Witness ==
    /\ last.op = "read"
    /\ last.pos > 0
    /\ last.origin[last.pos] = 48
    /\ last.arg[last.pos] = 112
    /\ last.status = "ok"

\* C10: the reply an attribute read consumes is the one the device sent in
\* answer to that read's own request: a well-formed reply that a read
\* consumes carries that read's request number and echoes its letter (or
\* an error marker in the letter's place).
C10_ReplyAnswersRequest ==
    (/\ pc = "idle"
     /\ last.op = "get"
     /\ Read(last.arg).status = "ok"
     /\ Len(Read(last.arg).value) >= 4) =>
        /\ consumed[1].req = last.req
        /\ Read(last.arg).value[4] \in {last.command[1], ord_N, ord_X}

====
